---- MODULE Spec2Model ----
\* Lifecycle controller of the managed docker instance:
\*   automation/plugin/docker_wrapper.py      (DockerWrapper, _with_retry, _run_command)
\*   automation/plugin/pytest_docker_plugin.py (DockerMangePlugin and its options)
\* The docker daemon is the environment: it answers each command with an exit
\* status and an output, and moves instances between states on its own.
EXTENDS Integers, Sequences, FiniteSets, TLC

\* ---------------------------------------------------------------- bounds
MaxInstances == 2   \* container ids the daemon can hand out
MaxAttempts  == 4   \* attempts of one _with_retry call that are told apart (>= 4,
                    \* from where on the wait stays at its maximum)
MaxCalls     == 2   \* start()/stop() calls made by a direct caller
MaxUnits     == 1   \* tests run in one pytest session
MaxLen       == 3   \* characters of a text sent to the demo service

Handles == 1..MaxInstances
Threads == {"main"}

\* A command output is the set of container ids it prints; "" is the empty set.
Empty == {}

VARIABLES
    inst,            \* daemon: state of each container id
    pc,              \* per thread: position inside start()/stop()
    container_id,    \* per thread: the local variable container_id
    attempt_number,  \* per thread: attempt number of the running _with_retry
    retry_value,     \* per thread: value returned by the last _with_retry
    call,            \* per thread: record of the call in progress
    history,         \* records of the last two calls that returned, in order
    argv,            \* command line options given to pytest
    plugin,          \* the registered DockerMangePlugin (or unregistered)
    phase,           \* position of the test runner
    hook,            \* plugin callback being executed
    events,          \* callbacks fired so far, with the operation each called
    units,           \* tests set up so far
    cache,           \* demo service: cache['result']
    request,         \* demo service: the request handled last
    response,        \* demo service: the response to it
    served           \* demo service: text of the latest /reverse answered 200

vars == <<inst, pc, container_id, attempt_number, retry_value, call, history,
          argv, plugin, phase, hook, events, units,
          cache, request, response, served>>

ctlVars == <<pc, container_id, attempt_number, retry_value, call, history>>
runnerVars == <<argv, plugin, phase, hook, events, units>>
appVars == <<cache, request, response, served>>

\* ------------------------------------------------------------ environment
\* Each container id is "none", "starting", "running" or "stopping".
\* Containers `docker ps` lists: up, including one that was told to stop and
\* has not exited yet.
Live(env) == {h \in Handles : env[h] \in {"running", "stopping"}}

Running(env) == {h \in Handles : env[h] = "running"}

Free(env) == {h \in Handles : env[h] = "none"}

\* Errors subprocess.run raises before any command runs: the binary is missing
\* (FileNotFoundError) or an argument is not a valid one (ValueError).
SpawnErrors == {"FileNotFoundError", "ValueError"}

\* subprocess.run could not start the command: nothing ran, nothing changed.
not_spawned(env) ==
    { [returncode |-> 0, stdout |-> Empty, env |-> env, raises |-> e] : e \in SpawnErrors }

\* Outcomes of `docker ps -q --filter ancestor=<name>`.
ps_outcomes(env) ==
    { [returncode |-> 0, stdout |-> Live(env), env |-> env, raises |-> "none"],
      [returncode |-> 1, stdout |-> Empty, env |-> env, raises |-> "none"] }
    \cup not_spawned(env)

\* Outcomes of `docker run -d -p <port> <name>`. Container ids are opaque:
\* the new container gets the lowest id not in use.
run_outcomes(env) ==
    { [returncode |-> 125, stdout |-> Empty, env |-> env, raises |-> "none"] }
    \cup { [returncode |-> 0, stdout |-> {h},
            env |-> [env EXCEPT ![h] = "starting"], raises |-> "none"] :
              h \in {x \in Free(env) : \A y \in Free(env) : x <= y} }
    \cup not_spawned(env)

\* Outcomes of `docker stop <container_id>`; the argument names a container
\* only when it is exactly one listed id.
stop_outcomes(env, arg) ==
    { [returncode |-> 1, stdout |-> Empty, env |-> env, raises |-> "none"] }
    \cup { [returncode |-> 0, stdout |-> {h},
            env |-> [env EXCEPT ![h] = "stopping"], raises |-> "none"] :
              h \in {x \in Live(env) : arg = {x}} }
    \cup not_spawned(env)

\* The daemon finishes a transition it was asked for.
EnvSettle ==
    /\ \E h \in Handles :
         \/ inst[h] = "starting" /\ inst' = [inst EXCEPT ![h] = "running"]
         \/ inst[h] = "stopping" /\ inst' = [inst EXCEPT ![h] = "none"]
    /\ UNCHANGED <<ctlVars, runnerVars, appVars>>

\* --------------------------------------------------------- docker_wrapper
\* _run_command: stdout on exit status 0, "" after CalledProcessError.
run_command(proc) ==
    IF proc.returncode = 0 THEN proc.stdout ELSE Empty

\* _run_command, lines 102-106: only CalledProcessError (a non-zero exit under
\* check=True) is caught; any other error of subprocess.run leaves _run_command.
run_command_raises(proc) == proc.raises

\* _with_retry, lines 85-86.
wait_exponential_multiplier == 1000
wait_exponential_max == 10000

\* Retrying.exponential_sleep as configured on lines 85-86: the wait after
\* attempt number n is multiplier * 2^n, cut at the maximum.
exponential_sleep_uncapped(previous_attempt_number) ==
    wait_exponential_multiplier * (2 ^ previous_attempt_number)
exponential_sleep(previous_attempt_number) ==
    LET result == wait_exponential_multiplier * (2 ^ previous_attempt_number)
    IN IF result > wait_exponential_max THEN wait_exponential_max ELSE result

\* _with_retry, line 83: retry_on_exception.
retry_on_exception_any(err) == TRUE
retry_on_exception(err) == err = "ValueError"

\* _with_retry, lines 82-88: no stop_max_attempt_number and no stop_max_delay
\* is given, so Retrying.stop is never_stop.
retry_stop(previous_attempt_number) == FALSE

\* Retrying.should_reject for the Retrying of lines 82-88: an attempt that
\* raised is judged by retry_on_exception, any other by retry_on_result.
should_reject(attempt_raises, rejected_by_result) ==
    IF attempt_raises # "none" THEN retry_on_exception(attempt_raises)
                               ELSE rejected_by_result

\* start(), line 165: `if not container_id`.
start_must_launch_always(cid) == TRUE
start_must_launch_inverted(cid) == cid # Empty
start_must_launch(cid) == cid = Empty

\* stop(), line 186: `if container_id`.
stop_must_stop_always(cid) == TRUE
stop_must_stop(cid) == cid # Empty

\* start(), line 169: lambda result: result == ''.
start_retry_on_result_inverted(result) == result # Empty
start_retry_on_result(result) == result = Empty

\* stop(), line 191: lambda result: result != ''.
stop_retry_on_result(result) == result # Empty

\* start(), line 174: `return container_id` (the retrier's value is dropped).
start_return(cid, polled) == cid

\* stop(), line 196: `return container_id`.
stop_return_polled(cid, polled) == polled
stop_return(cid, polled) == cid

\* stop(), line 188: `self._stop_container(container_id)`.
stop_argument(cid) == cid

NoCall ==
    [seq |-> 0, op |-> "none", by |-> "none", first |-> Empty, runs |-> 0, stops |-> 0,
     polls |-> 0, polled |-> Empty, target |-> Empty, over |-> Empty,
     ret |-> Empty, exc |-> "none", waits |-> <<>>, hits |-> 0, left |-> Empty,
     cmd |-> [returncode |-> 0, stdout |-> Empty, raises |-> "none", value |-> Empty]]

\* What the latest _run_command of a call was answered and what it gave back.
Ran(p) ==
    [returncode |-> p.returncode, stdout |-> p.stdout, raises |-> p.raises,
     value |-> IF run_command_raises(p) # "none" THEN Empty ELSE run_command(p)]

\* Number of calls that have returned.
Calls == IF history = <<>> THEN 0 ELSE history[Len(history)].seq

\* The record of the call after the Calls that returned.
NewCall(o, b) == [NoCall EXCEPT !.seq = Calls + 1, !.op = o, !.by = b]

\* The returned calls kept: the one before c, and c.
Remember(h, c) == IF h = <<>> THEN <<c>> ELSE <<h[Len(h)], c>>

\* Entry of start() / stop() on thread t, called by b.
Enter(t, o, b) ==
    /\ pc[t] = "idle"
    /\ pc' = [pc EXCEPT ![t] = IF o = "start" THEN "start_query" ELSE "stop_query"]
    /\ call' = [call EXCEPT ![t] = NewCall(o, b)]
    /\ container_id' = [container_id EXCEPT ![t] = Empty]
    /\ attempt_number' = [attempt_number EXCEPT ![t] = 0]
    /\ retry_value' = [retry_value EXCEPT ![t] = Empty]
    /\ UNCHANGED <<inst, history, appVars>>

\* start(), line 163 and the branch of line 165.
StartQuery(t) ==
    /\ pc[t] = "start_query"
    /\ \E p \in ps_outcomes(inst) :
         LET r == run_command(p) IN
           IF run_command_raises(p) # "none"
           THEN /\ pc' = [pc EXCEPT ![t] = "unwind"]
                /\ call' = [call EXCEPT ![t].exc = run_command_raises(p), ![t].cmd = Ran(p)]
                /\ UNCHANGED container_id
           ELSE /\ container_id' = [container_id EXCEPT ![t] = r]
                /\ call' = [call EXCEPT ![t].first = r, ![t].cmd = Ran(p)]
                /\ pc' = [pc EXCEPT ![t] =
                            IF start_must_launch(r) THEN "start_run" ELSE "start_return"]
    /\ UNCHANGED <<inst, attempt_number, retry_value, history, runnerVars, appVars>>

\* start(), lines 167-168: _run_container(), then the grace period.
StartRun(t) ==
    /\ pc[t] = "start_run"
    /\ \E p \in run_outcomes(inst) :
         /\ inst' = p.env
         /\ IF run_command_raises(p) # "none"
            THEN /\ pc' = [pc EXCEPT ![t] = "unwind"]
                 /\ call' = [call EXCEPT ![t].runs = @ + 1, ![t].over = Running(inst),
                                         ![t].exc = run_command_raises(p),
                                         ![t].cmd = Ran(p)]
                 /\ UNCHANGED attempt_number
            ELSE /\ pc' = [pc EXCEPT ![t] = "start_retry"]
                 /\ call' = [call EXCEPT ![t].runs = @ + 1, ![t].over = Running(inst),
                                         ![t].cmd = Ran(p)]
                 /\ attempt_number' = [attempt_number EXCEPT ![t] = 1]
    /\ UNCHANGED <<container_id, retry_value, history, runnerVars, appVars>>

\* stop(), line 184 and the branch of line 186.
StopQuery(t) ==
    /\ pc[t] = "stop_query"
    /\ \E p \in ps_outcomes(inst) :
         LET r == run_command(p) IN
           IF run_command_raises(p) # "none"
           THEN /\ pc' = [pc EXCEPT ![t] = "unwind"]
                /\ call' = [call EXCEPT ![t].exc = run_command_raises(p), ![t].cmd = Ran(p)]
                /\ UNCHANGED container_id
           ELSE /\ container_id' = [container_id EXCEPT ![t] = r]
                /\ call' = [call EXCEPT ![t].first = r, ![t].cmd = Ran(p)]
                /\ pc' = [pc EXCEPT ![t] =
                            IF stop_must_stop(r) THEN "stop_cmd" ELSE "stop_return"]
    /\ UNCHANGED <<inst, attempt_number, retry_value, history, runnerVars, appVars>>

\* stop(), lines 188-189: _stop_container(container_id), then the grace period.
StopCmd(t) ==
    /\ pc[t] = "stop_cmd"
    /\ LET arg == stop_argument(container_id[t]) IN
         \E p \in stop_outcomes(inst, arg) :
           /\ inst' = p.env
           /\ IF run_command_raises(p) # "none"
              THEN /\ pc' = [pc EXCEPT ![t] = "unwind"]
                   /\ call' = [call EXCEPT ![t].stops = @ + 1, ![t].target = arg,
                                           ![t].exc = run_command_raises(p),
                                           ![t].cmd = Ran(p)]
                   /\ UNCHANGED attempt_number
              ELSE /\ pc' = [pc EXCEPT ![t] = "stop_retry"]
                   /\ call' = [call EXCEPT ![t].stops = @ + 1, ![t].target = arg,
                                           ![t].cmd = Ran(p)]
                   /\ attempt_number' = [attempt_number EXCEPT ![t] = 1]
    /\ UNCHANGED <<container_id, retry_value, history, runnerVars, appVars>>

\* Counting up to the number of attempts that are told apart.
UpTo(n) == IF n < MaxAttempts THEN n + 1 ELSE n

\* The state the caller of _with_retry is waiting for, seen in an attempt.
Reached(in_start, raises, r) ==
    raises = "none" /\ (IF in_start THEN r # Empty ELSE r = Empty)

\* _with_retry: one attempt of Retrying.call on _get_container_id. An attempt
\* that is not rejected ends the loop: its value is returned to start() (line
\* 169) or stop() (line 191), its error is raised again. A rejected attempt is
\* followed by the wait, as never_stop does not end the loop.
with_retry(t) ==
    /\ pc[t] \in {"start_retry", "stop_retry"}
    /\ \E p \in ps_outcomes(inst) :
         LET in_start == pc[t] = "start_retry"
             r == run_command(p)
             e == run_command_raises(p)
             reject == should_reject(e, IF in_start THEN start_retry_on_result(r)
                                                    ELSE stop_retry_on_result(r))
             seen == [call[t] EXCEPT !.cmd = Ran(p), !.polls = UpTo(@),
                                     !.hits = IF Reached(in_start, e, r) THEN UpTo(@) ELSE @]
         IN
           \/ /\ ~reject
              /\ e = "none"
              /\ call' = [call EXCEPT ![t] = [seen EXCEPT !.polled = r]]
              /\ retry_value' = [retry_value EXCEPT ![t] = r]
              /\ pc' = [pc EXCEPT ![t] = IF in_start THEN "start_return" ELSE "stop_return"]
           \/ /\ ~reject
              /\ e # "none"
              /\ call' = [call EXCEPT ![t] = [seen EXCEPT !.exc = e]]
              /\ pc' = [pc EXCEPT ![t] = "unwind"]
              /\ UNCHANGED retry_value
           \/ /\ reject
              /\ ~retry_stop(attempt_number[t])
              /\ call' = [call EXCEPT ![t] =
                            [seen EXCEPT !.waits =
                                IF Len(@) < MaxAttempts
                                THEN Append(@, exponential_sleep(attempt_number[t]))
                                ELSE @]]
              /\ pc' = [pc EXCEPT ![t] = IF in_start THEN "start_wait" ELSE "stop_wait"]
              /\ UNCHANGED retry_value
    /\ UNCHANGED <<inst, container_id, attempt_number, history, runnerVars, appVars>>

\* Retrying.call: the wait is over, the next attempt begins.
retry_sleep(t) ==
    /\ pc[t] \in {"start_wait", "stop_wait"}
    /\ attempt_number' = [attempt_number EXCEPT ![t] = UpTo(@)]
    /\ pc' = [pc EXCEPT ![t] = IF pc[t] = "start_wait" THEN "start_retry" ELSE "stop_retry"]
    /\ UNCHANGED <<inst, container_id, retry_value, call, history, runnerVars, appVars>>

\* An error that nothing in start()/stop() catches leaves the call.
Propagate(t) ==
    /\ pc[t] = "unwind"
    /\ history' = Remember(history, [call[t] EXCEPT !.left = Live(inst)])
    /\ call' = [call EXCEPT ![t].left = Live(inst)]
    /\ pc' = [pc EXCEPT ![t] = "idle"]
    /\ UNCHANGED <<inst, container_id, attempt_number, retry_value, runnerVars, appVars>>

\* start(), line 174 / stop(), line 196.
Return(t) ==
    /\ pc[t] \in {"start_return", "stop_return"}
    /\ LET v == IF pc[t] = "start_return"
                THEN start_return(container_id[t], retry_value[t])
                ELSE stop_return(container_id[t], retry_value[t])
       IN /\ history' = Remember(history, [call[t] EXCEPT !.ret = v, !.left = Live(inst)])
          /\ call' = [call EXCEPT ![t].ret = v, ![t].left = Live(inst)]
    /\ pc' = [pc EXCEPT ![t] = "idle"]
    /\ UNCHANGED <<inst, container_id, attempt_number, retry_value, runnerVars, appVars>>

\* A caller that owns the DockerWrapper and calls it directly, one call at a time.
CallStart(t) ==
    /\ phase = "direct"
    /\ Calls < MaxCalls
    /\ Enter(t, "start", "direct")
    /\ UNCHANGED runnerVars

CallStop(t) ==
    /\ phase = "direct"
    /\ Calls < MaxCalls
    /\ Enter(t, "stop", "direct")
    /\ UNCHANGED runnerVars

\* ------------------------------------------------------- rest_app/app.py
\* A text is a sequence of characters; an optional text is the empty set
\* (None) or the set of one text.
Chars == {"a", "b", " "}
Texts == UNION {[1..n -> Chars] : n \in 0..MaxLen}
None == {}
Some(x) == {x}
The(o) == CHOOSE x \in o : TRUE

RECURSIVE lstrip(_)
lstrip(str) == IF str # <<>> /\ Head(str) = " " THEN lstrip(Tail(str)) ELSE str

RECURSIVE rstrip(_)
rstrip(str) ==
    IF str # <<>> /\ str[Len(str)] = " " THEN rstrip(SubSeq(str, 1, Len(str) - 1)) ELSE str

\* str.strip()
strip(str) == rstrip(lstrip(str))

\* Length of the run of non-blank characters str begins with.
RECURSIVE word_len(_)
word_len(str) == IF str = <<>> \/ Head(str) = " " THEN 0 ELSE 1 + word_len(Tail(str))

\* str.split(): the maximal runs of non-blank characters, in order.
RECURSIVE split(_)
split(str) ==
    LET rest == lstrip(str) IN
    IF rest = <<>> THEN <<>>
    ELSE <<SubSeq(rest, 1, word_len(rest))>>
         \o split(SubSeq(rest, word_len(rest) + 1, Len(rest)))

\* reversed(list)
reversed(list) == [i \in 1..Len(list) |-> list[Len(list) + 1 - i]]

\* ' '.join(list)
RECURSIVE join(_)
join(list) ==
    IF list = <<>> THEN <<>>
    ELSE IF Len(list) = 1 THEN list[1]
    ELSE list[1] \o <<" ">> \o join(Tail(list))

\* reverse(), line 43: ' '.join(reversed(input_text.strip().split())).
reverse_words_in_place(input_text) == join(split(strip(input_text)))
reverse_words(input_text) == join(reversed(split(strip(input_text))))

\* reverse(), line 40: `if not input_text` (None or the empty string).
missing_text_only_none(input_text) == input_text = None
missing_text(input_text) == input_text = None \/ input_text = Some(<<>>)

\* restore(), line 50: `if cache['result'] is None`.
cache_is_absent_or_empty(result) == result = None \/ result = Some(<<>>)
cache_is_absent(result) == result = None

\* jsonify({"result": ...}) with status 200, jsonify({"error": ...}), status.
Ok(result) == [status |-> 200, error |-> "", result |-> Some(result)]
Error(status, message) == [status |-> status, error |-> message, result |-> None]

NoRequest == [route |-> "none", text |-> None, before |-> None]

\* GET /reverse, lines 36-45.
reverse ==
    \E input_text \in {None} \cup {Some(x) : x \in Texts} :
        /\ request' = [route |-> "reverse", text |-> input_text, before |-> cache]
        /\ IF missing_text(input_text)
           THEN /\ response' = Error(400, "Missing 'text' query parameter")
                /\ UNCHANGED <<cache, served>>
           ELSE /\ cache' = Some(reverse_words(The(input_text)))
                /\ response' = Ok(reverse_words(The(input_text)))
                /\ served' = input_text
        /\ UNCHANGED <<inst, ctlVars, runnerVars>>

\* GET /restore, lines 48-53.
restore ==
    /\ request' = [route |-> "restore", text |-> None, before |-> cache]
    /\ response' = IF cache_is_absent(cache)
                   THEN Error(404, "No previous result found")
                   ELSE Ok(The(cache))
    /\ UNCHANGED <<cache, served, inst, ctlVars, runnerVars>>

\* app.py, lines 31-33: the module-level cache of a service that just started.
InitApp ==
    /\ cache = None
    /\ request = NoRequest
    /\ response = Error(0, "")
    /\ served = None

NextApp ==
    \/ reverse
    \/ restore

\* No DockerMangePlugin object exists (pytest_configure did not register one).
Unregistered == [registered |-> FALSE, with_docker |-> FALSE, action_scope |-> "session"]

\* ---------------------------------------------------------------- states
InitEnv ==
    \/ inst = [h \in Handles |-> "none"]
    \/ inst = [x \in Handles |-> IF x = 1 THEN "running" ELSE "none"]

InitCtl ==
    /\ pc = [t \in Threads |-> "idle"]
    /\ container_id = [t \in Threads |-> Empty]
    /\ attempt_number = [t \in Threads |-> 0]
    /\ retry_value = [t \in Threads |-> Empty]
    /\ call = [t \in Threads |-> NoCall]
    /\ history = <<>>

Init ==
    /\ InitEnv
    /\ InitCtl
    /\ argv = [with_docker |-> FALSE, scope |-> "default"]
    /\ plugin = Unregistered
    /\ phase = "direct"
    /\ hook = "none"
    /\ events = <<>>
    /\ units = 0
    /\ InitApp

Next ==
    \/ EnvSettle
    \/ \E t \in Threads : CallStart(t)
    \/ \E t \in Threads : CallStop(t)
    \/ \E t \in Threads : StartQuery(t)
    \/ \E t \in Threads : StartRun(t)
    \/ \E t \in Threads : StopQuery(t)
    \/ \E t \in Threads : StopCmd(t)
    \/ \E t \in Threads : with_retry(t)
    \/ \E t \in Threads : retry_sleep(t)
    \/ \E t \in Threads : Return(t)
    \/ \E t \in Threads : Propagate(t)

Spec == Init /\ [][Next]_vars

\* The calling thread keeps running (every step of start()/stop() that can be
\* taken is taken, every wait of the retrier ends) and the daemon completes the
\* transitions it began.
Fairness ==
    /\ WF_vars(EnvSettle)
    /\ \A t \in Threads :
         /\ WF_vars(StartQuery(t))
         /\ WF_vars(StartRun(t))
         /\ WF_vars(StopQuery(t))
         /\ WF_vars(StopCmd(t))
         /\ WF_vars(with_retry(t))
         /\ WF_vars(retry_sleep(t))
         /\ WF_vars(Return(t))
         /\ WF_vars(Propagate(t))

SpecFair == Init /\ [][Next]_vars /\ Fairness

\* Two threads that share one DockerWrapper. The class holds no lock and
\* start() takes none (lines 156-174), so the steps of the two calls interleave
\* freely: every command is a separate docker process.
RaceThreads == {"first", "second"}

\* No container of the image is up and neither thread has called yet.
InitRace ==
    /\ inst = [h \in Handles |-> "none"]
    /\ pc = [t \in RaceThreads |-> "idle"]
    /\ container_id = [t \in RaceThreads |-> Empty]
    /\ attempt_number = [t \in RaceThreads |-> 0]
    /\ retry_value = [t \in RaceThreads |-> Empty]
    /\ call = [t \in RaceThreads |-> NoCall]
    /\ history = <<>>
    /\ argv = [with_docker |-> FALSE, scope |-> "default"]
    /\ plugin = Unregistered
    /\ phase = "direct"
    /\ hook = "none"
    /\ events = <<>>
    /\ units = 0
    /\ InitApp

\* Thread t calls start(), once.
StartOnce(t) ==
    /\ call[t].op = "none"
    /\ Enter(t, "start", "direct")
    /\ UNCHANGED runnerVars

NextRace ==
    \/ EnvSettle
    \/ \E t \in RaceThreads : StartOnce(t)
    \/ \E t \in RaceThreads : StartQuery(t)
    \/ \E t \in RaceThreads : StartRun(t)
    \/ \E t \in RaceThreads : with_retry(t)
    \/ \E t \in RaceThreads : retry_sleep(t)
    \/ \E t \in RaceThreads : Return(t)
    \/ \E t \in RaceThreads : Propagate(t)

SpecRace == InitRace /\ [][NextRace]_vars

\* The demo service alone, answering any sequence of requests.
SpecApp == Init /\ [][NextApp]_vars

\* ------------------------------------------------------ pytest_docker_plugin
Scopes == {"session", "test"}

\* pytest_addoption, lines 87-92: --with-docker, store_true, default False.
with_docker_default_on(args) == TRUE
with_docker_option(args) == IF args.with_docker THEN TRUE ELSE FALSE

\* pytest_addoption, lines 93-99: --container-scope, default 'session'.
container_scope_option(args) ==
    IF args.scope = "default" THEN "session" ELSE args.scope

\* DockerMangePlugin.__init__, lines 21-25.
NewPlugin(args) ==
    [registered |-> TRUE,
     with_docker |-> with_docker_option(args),
     action_scope |-> container_scope_option(args)]

\* pytest_configure, lines 102-105: the plugin is registered only with --with-docker.
pytest_configure ==
    /\ phase = "boot"
    /\ plugin' = IF with_docker_option(argv) THEN NewPlugin(argv) ELSE Unregistered
    /\ phase' = "configured"
    /\ UNCHANGED <<inst, ctlVars, argv, hook, events, units, appVars>>

\* The condition guarding the controller call in each callback
\* (lines 34, 47, 62, 75).
sessionstart_calls_on_test(p) == p.with_docker /\ p.action_scope = "test"
sessionstart_calls(p) == p.with_docker /\ p.action_scope = "session"

sessionfinish_calls(p) == p.with_docker /\ p.action_scope = "session"

runtest_setup_calls(p) == p.with_docker /\ p.action_scope = "test"

runtest_teardown_calls(p) == p.with_docker /\ p.action_scope = "test"

\* The runner fires callback h; a registered plugin whose condition holds
\* calls op on its DockerWrapper and the callback returns after that call,
\* otherwise the callback only logs and the runner moves on to phase nxt.
Fire(h, calls, op, nxt) ==
    /\ hook = "none"
    /\ pc["main"] = "idle"
    /\ IF plugin.registered /\ calls
       THEN /\ Enter("main", op, h)
            /\ hook' = h
            /\ events' = Append(events, [hook |-> h, called |-> op])
            /\ UNCHANGED phase
       ELSE /\ phase' = nxt
            /\ events' = Append(events, [hook |-> h, called |-> "none"])
            /\ UNCHANGED <<inst, ctlVars, hook>>
    /\ UNCHANGED <<argv, plugin, appVars>>

\* Where the runner goes when callback h is over; err tells whether an error
\* left the callback: after a failed session start the runner gives up, after a
\* failed setup the test is not run and only torn down.
AfterHook(h, err) ==
    CASE h = "pytest_sessionstart"     -> IF err THEN "crashed" ELSE "session"
      [] h = "pytest_runtest_setup"    -> IF err THEN "unit_error" ELSE "unit"
      [] h = "pytest_runtest_teardown" -> "session"
      [] h = "pytest_sessionfinish"    -> "finished"

\* lines 27-37
pytest_sessionstart ==
    /\ phase = "configured"
    /\ Fire("pytest_sessionstart", sessionstart_calls(plugin), "start", "session")
    /\ UNCHANGED units

\* lines 39-50
pytest_sessionfinish ==
    /\ phase = "session"
    /\ Fire("pytest_sessionfinish", sessionfinish_calls(plugin), "stop", "finished")
    /\ UNCHANGED units

\* lines 53-64
pytest_runtest_setup ==
    /\ phase = "session"
    /\ units < MaxUnits
    /\ units' = units + 1
    /\ Fire("pytest_runtest_setup", runtest_setup_calls(plugin), "start", "unit")

\* lines 66-77
pytest_runtest_teardown ==
    /\ phase \in {"unit", "unit_error"}
    /\ Fire("pytest_runtest_teardown", runtest_teardown_calls(plugin), "stop", "session")
    /\ UNCHANGED units

\* The controller call made by the callback has returned; so does the callback.
HookReturn ==
    /\ hook # "none"
    /\ pc["main"] = "idle"
    /\ phase' = AfterHook(hook, call["main"].exc # "none")
    /\ hook' = "none"
    /\ UNCHANGED <<inst, ctlVars, argv, plugin, events, units, appVars>>

InitPlugin ==
    /\ InitEnv
    /\ InitCtl
    /\ argv \in [with_docker : BOOLEAN, scope : {"default"} \cup Scopes]
    /\ plugin = Unregistered
    /\ phase = "boot"
    /\ hook = "none"
    /\ events = <<>>
    /\ units = 0
    /\ InitApp

NextPlugin ==
    \/ EnvSettle
    \/ pytest_configure
    \/ pytest_sessionstart
    \/ pytest_runtest_setup
    \/ pytest_runtest_teardown
    \/ pytest_sessionfinish
    \/ HookReturn
    \/ \E t \in Threads : StartQuery(t)
    \/ \E t \in Threads : StartRun(t)
    \/ \E t \in Threads : StopQuery(t)
    \/ \E t \in Threads : StopCmd(t)
    \/ \E t \in Threads : with_retry(t)
    \/ \E t \in Threads : retry_sleep(t)
    \/ \E t \in Threads : Return(t)
    \/ \E t \in Threads : Propagate(t)

SpecPlugin == InitPlugin /\ [][NextPlugin]_vars

\* ================================================================ claims
\* Calls that have returned (the last two of them).
Returned == {history[i] : i \in DOMAIN history}

\* Calls in progress that are past their initial query.
Queried == {call[t] : t \in {x \in Threads : pc[x] \notin {"idle", "start_query", "stop_query"}}}

\* Calls in progress that are past their launch or stop command, if any.
Commanded == {call[t] : t \in {x \in Threads : pc[x] \in {"start_retry", "stop_retry",
                                                          "start_wait", "stop_wait",
                                                          "start_return", "stop_return"}}}

\* C1: a start() that found the instance not running and launched it returns
\* the non-empty handle that its accepted poll observed.
C1_StartReturnsPolledHandle ==
    \A c \in Returned :
        (c.op = "start" /\ c.exc = "none" /\ c.first = Empty /\ c.runs = 1)
            => (c.ret # Empty /\ c.ret = c.polled)

\* C2: a start() whose initial query returns a non-empty handle issues no
\* launch (and no stop) command, makes no retrier poll, and returns exactly
\* the handle of that query.
C2_IdempotentStart ==
    /\ \A c \in Returned \cup Queried :
         (c.op = "start" /\ c.first # Empty)
            => (c.runs = 0 /\ c.stops = 0 /\ c.polls = 0)
    /\ \A c \in Returned :
         (c.op = "start" /\ c.first # Empty) => (c.exc = "none" /\ c.ret = c.first)

C2_Witness ==
    \E c \in Returned : c.op = "start" /\ c.first # Empty /\ c.ret = c.first

\* C3: a stop() whose initial query returns empty (also a stop() before any
\* start()) issues no stop (and no launch) command, makes no retrier poll, and
\* returns the empty handle.
C3_IdempotentStop ==
    /\ \A c \in Returned \cup Queried :
         (c.op = "stop" /\ c.first = Empty)
            => (c.runs = 0 /\ c.stops = 0 /\ c.polls = 0)
    /\ \A c \in Returned :
         (c.op = "stop" /\ c.first = Empty) => c.ret = Empty

C3_Witness ==
    \E c \in Returned :
        c.seq = 1 /\ c.op = "stop" /\ c.exc = "none" /\ c.first = Empty /\ c.ret = Empty

\* C4: two start() calls in a row (the second entered after the first has
\* returned, no stop() between them), the first of which found the instance
\* not running, issue exactly one launch command in total.
C4_NoDoubleLaunch ==
    \A i \in DOMAIN history :
        (/\ i + 1 \in DOMAIN history
         /\ history[i].op = "start" /\ history[i + 1].op = "start"
         /\ history[i].exc = "none" /\ history[i + 1].exc = "none"
         /\ history[i].first = Empty)
            => history[i].runs + history[i + 1].runs = 1

\* C5: at most one instance is running in every reachable state, and no launch
\* command is issued while an instance is running.
C5_AtMostOneInstance ==
    /\ Cardinality(Running(inst)) <= 1
    /\ \A c \in Returned \cup Queried : c.over = Empty

\* C6: a stop() whose initial query returns a non-empty handle issues one stop
\* command, against that handle, and when it returns it returns that handle,
\* whatever the polls observed.
C6_StopReturnsPreStopHandle ==
    /\ \A c \in Returned \cup Commanded :
         (c.op = "stop" /\ c.first # Empty)
            => (c.stops = 1 /\ c.runs = 0 /\ c.target = c.first)
    /\ \A c \in Returned :
         (c.op = "stop" /\ c.exc = "none" /\ c.first # Empty) => c.ret = c.first

C6_Witness ==
    \E c \in Returned :
        /\ c.op = "stop" /\ c.exc = "none" /\ c.first # Empty
        /\ c.polls >= 2 /\ c.polled = Empty /\ c.ret = c.first

\* C7: once a stop() that found the instance running has returned, and until
\* the next call, no instance is up: a query of the daemon yields empty.
C7_StoppedAfterStop ==
    \A t \in Threads :
        (/\ pc[t] = "idle"
         /\ Len(history) >= 1
         /\ history[Len(history)].op = "stop"
         /\ history[Len(history)].exc = "none"
         /\ history[Len(history)].first # Empty)
            => Live(inst) = Empty

\* C11: the retrier has a ceiling, so every start() and stop() that reaches its
\* polling loop leaves it after finitely many polls and comes back to its
\* caller, also when the awaited state is never observed.
C11_BoundedRetry ==
    \A t \in Threads :
        (pc[t] \in {"start_retry", "stop_retry"}) ~> (pc[t] = "idle")

\* Calls in progress.
Running_calls == {call[t] : t \in {x \in Threads : pc[x] # "idle"}}

\* C12: a start() or stop() that issued its command and returned without an
\* error reached its target state: at the return of such a stop() no instance
\* is up, at the return of such a start() one is.
C12_FailureIsSurfaced ==
    \A c \in Returned :
        /\ (c.op = "stop" /\ c.stops = 1 /\ c.exc = "none") => c.left = Empty
        /\ (c.op = "start" /\ c.runs = 1 /\ c.exc = "none") => c.left # Empty

\* C13: no command lets an error out of _run_command: each comes back with the
\* standard output of a command that exited with status 0 and with the empty
\* string otherwise, also when the command could not be started.
C13_ExecuteNeverRaises ==
    \A c \in Returned \cup Running_calls :
        /\ c.exc = "none"
        /\ c.cmd.value = (IF c.cmd.raises = "none" /\ c.cmd.returncode = 0
                          THEN c.cmd.stdout ELSE Empty)

\* Positions of str where a word begins, and the word that begins at i.
WordStarts(str) ==
    {i \in 1..Len(str) : str[i] # " " /\ (i = 1 \/ str[i - 1] = " ")}
WordAt(str, i) ==
    LET last == CHOOSE j \in i..Len(str) :
                    /\ \A k \in i..j : str[k] # " "
                    /\ (j = Len(str) \/ str[j + 1] = " ")
    IN SubSeq(str, i, last)

\* out is made of the words of text in the opposite order, one blank between
\* two words and none at either end.
IsWordsReversed(text, out) ==
    /\ Cardinality(WordStarts(out)) = Cardinality(WordStarts(text))
    /\ \A i \in WordStarts(text) :
         \E j \in WordStarts(out) :
             /\ WordAt(out, j) = WordAt(text, i)
             /\ Cardinality({k \in WordStarts(out) : k < j})
                  = Cardinality({k \in WordStarts(text) : k > i})
    /\ Len(out) = 0 \/ (out[1] # " " /\ out[Len(out)] # " ")
    /\ \A k \in 1..(Len(out) - 1) : ~(out[k] = " " /\ out[k + 1] = " ")

\* C14: once a /reverse has been answered 200, /restore answers 200 with the
\* words of the text of the latest such /reverse in reversed order, and
\* /restore leaves the cached result as it was.
C14_RestoreReturnsLatestReverse ==
    (request.route = "restore" /\ served # None) =>
        /\ response.status = 200
        /\ response.result # None
        /\ IsWordsReversed(The(served), The(response.result))
        /\ cache = request.before

C14_Witness ==
    /\ request.route = "restore"
    /\ served = Some(<<"a", " ", "b">>)
    /\ response = Ok(<<"b", " ", "a">>)

C16_NotFoundIffNeverReversed ==
    request.route = "restore" => (response.status = 404 <=> served = None)

C16_Witness ==
    /\ request.route = "restore"
    /\ served = Some(<<" ">>)
    /\ cache = Some(<<>>)
    /\ response.status = 200

\* The smaller of two numbers.
Min(a, b) == IF a < b THEN a ELSE b

\* C17: the wait before attempt k + 1 of a retrier run is
\* min(1000 * 2^(k-1), 10000) ms: 1000, 2000, 4000, 8000, 10000, 10000, ...
C17_BackoffFromInitialWait ==
    \A c \in Returned \cup Running_calls :
        \A k \in 1..Len(c.waits) : c.waits[k] = Min(1000 * (2 ^ (k - 1)), 10000)

\* C18: the waits of a retrier run never decrease from one to the next, and
\* none is longer than 10000 ms.
C18_WaitsNonDecreasingAndCapped ==
    \A c \in Returned \cup Running_calls :
        \A k \in 1..Len(c.waits) :
            /\ c.waits[k] <= 10000
            /\ k > 1 => c.waits[k - 1] <= c.waits[k]

C18_Witness ==
    \E c \in Returned \cup Running_calls :
        /\ Len(c.waits) >= 4
        /\ c.waits[3] < c.waits[4]
        /\ c.waits[4] = 10000

\* C19: polling ends with the first attempt that observes the awaited state
\* (a handle for start(), none for stop()): a call still polling or waiting
\* has not observed it, a call that polled and came back observed it exactly
\* once, in its last poll, and a run of k polls has k - 1 waits, so that no
\* wait follows the accepted attempt.
C19_PollingStopsAtFirstAccepted ==
    /\ \A t \in Threads :
         pc[t] \in {"start_retry", "stop_retry", "start_wait", "stop_wait"}
            => call[t].hits = 0
    /\ \A c \in Returned :
         (c.polls >= 1 /\ c.exc = "none") =>
            /\ c.hits = 1
            /\ Reached(c.op = "start", c.cmd.raises, c.cmd.value)
            /\ c.polled = c.cmd.value
            /\ c.polls < MaxAttempts => Len(c.waits) = c.polls - 1

C19_Witness ==
    /\ \E c \in Returned :
         c.op = "start" /\ c.exc = "none" /\ c.polls = 3 /\ c.polled # Empty
    /\ \E c \in Returned :
         c.op = "stop" /\ c.exc = "none" /\ c.polls = 2 /\ c.polled = Empty

\* C20: an attempt of the retrier that raises ValueError is followed by the
\* wait and, after it, by the next attempt; an attempt that raises any other
\* error is the last one, and that error leaves start() or stop() at once.
C20_RetrierErrorClassification ==
    [][\A t \in Threads :
         /\ (pc[t] \in {"start_retry", "stop_retry"} /\ pc'[t] # pc[t]) =>
               /\ call'[t].cmd.raises = "ValueError" =>
                     /\ pc'[t] = (IF pc[t] = "start_retry" THEN "start_wait"
                                                           ELSE "stop_wait")
                     /\ call'[t].exc = "none"
               /\ call'[t].cmd.raises \notin {"none", "ValueError"} =>
                     /\ pc'[t] = "unwind"
                     /\ call'[t].exc = call'[t].cmd.raises
         /\ (pc[t] \in {"start_wait", "stop_wait"} /\ pc'[t] # pc[t]) =>
               pc'[t] = (IF pc[t] = "start_wait" THEN "start_retry" ELSE "stop_retry")
         /\ (pc[t] = "unwind" /\ pc'[t] # pc[t]) =>
               /\ pc'[t] = "idle"
               /\ history'[Len(history')] = [call[t] EXCEPT !.left = Live(inst)]
    ]_vars

C20_Witness ==
    /\ \E c \in Returned : c.polls >= 1 /\ c.exc = "FileNotFoundError"
    /\ \E t \in Threads :
         /\ pc[t] \in {"start_retry", "stop_retry"}
         /\ call[t].cmd.raises = "ValueError"
         /\ call[t].polls >= 2 /\ Len(call[t].waits) >= 2

\* Launch commands issued so far by the start() calls of the two threads.
Launches == call["first"].runs + call["second"].runs

\* C21: start() is not serialised: of two threads calling start() on one
\* controller while nothing is up, each one whose initial query answered "not
\* running" goes on to its own launch command, wherever the other thread is,
\* so that two such calls issue two launch commands.
C21_ConcurrentStartsBothLaunch ==
    /\ \A t \in RaceThreads :
         (call[t].op = "start" /\ pc[t] # "start_query"
            /\ call[t].first = Empty /\ call[t].exc = "none")
            => (pc[t] = "start_run" \/ call[t].runs = 1)
    /\ (\A t \in RaceThreads :
            call[t].op = "start" /\ call[t].first = Empty /\ call[t].exc = "none"
              /\ pc[t] \notin {"start_query", "start_run"})
         => Launches = 2

\* Both threads found nothing running and each launched a container: two
\* containers of the one image are starting, none has come up yet.
C21_Witness ==
    /\ \A t \in RaceThreads :
         /\ pc[t] = "start_retry"
         /\ call[t].op = "start" /\ call[t].first = Empty
         /\ call[t].runs = 1 /\ call[t].polls = 0
         /\ call[t].cmd.returncode = 0 /\ call[t].cmd.stdout # Empty
    /\ call["first"].cmd.stdout # call["second"].cmd.stdout
    /\ Cardinality({h \in Handles : inst[h] = "starting"}) = 2
    /\ Launches = 2

\* The scope selector the command line configures.
Selector == IF argv.scope = "test" THEN "test" ELSE "session"

\* C8: with lifecycle management enabled and every callback returning without
\* an error, an instance is running while a test runs (its setup callback has
\* returned, its teardown callback has not begun), and none is up once the
\* configured scope has ended: after the session-finish callback under
\* 'session', after each teardown callback under 'test'.
C8_ScopeLifecycle ==
    (argv.with_docker /\ hook = "none" /\ \A c \in Returned : c.exc = "none") =>
        /\ phase = "unit" => Running(inst) # Empty
        /\ (Selector = "session" /\ phase = "finished") => Live(inst) = Empty
        /\ (Selector = "test" /\ phase = "session" /\ units >= 1) => Live(inst) = Empty

\* The operation the routing table assigns to callback h under selector s.
Routed(s, h) ==
    CASE s = "session" /\ h = "pytest_sessionstart"     -> "start"
      [] s = "session" /\ h = "pytest_sessionfinish"    -> "stop"
      [] s = "test"    /\ h = "pytest_runtest_setup"    -> "start"
      [] s = "test"    /\ h = "pytest_runtest_teardown" -> "stop"
      [] OTHER -> "none"

\* Number of controller calls entered so far.
Entered == Calls + (IF pc["main"] = "idle" THEN 0 ELSE 1)

\* Callbacks that called the controller, in order.
Calling == SelectSeq(events, LAMBDA e : e.called # "none")

\* C9: with lifecycle management enabled, each callback that fired called
\* exactly the operation the routing table assigns to it under the configured
\* selector (start, stop or nothing), and the controller was entered once per
\* calling callback, the latest entry being the operation of the latest
\* calling callback.
C9_ScopeRouting ==
    argv.with_docker =>
        /\ \A i \in DOMAIN events : events[i].called = Routed(Selector, events[i].hook)
        /\ Entered = Len(Calling)
        /\ Calling # <<>> =>
             /\ call["main"].seq = Len(Calling)
             /\ call["main"].op = Calling[Len(Calling)].called
             /\ call["main"].by = Calling[Len(Calling)].hook

C9_Witness ==
    /\ argv.with_docker
    /\ phase = "finished"
    /\ units >= 1
    /\ Len(Calling) >= 2

\* C10: with lifecycle management disabled no step changes the daemon or the
\* controller: no callback issues a query, launch or stop command.
C10_DisabledIsInert ==
    [][~argv.with_docker => UNCHANGED <<inst, ctlVars>>]_vars

C10_Witness ==
    /\ ~argv.with_docker
    /\ argv.scope = "test"
    /\ phase = "finished"
    /\ Len(events) >= 4
    /\ Running(inst) # Empty

====
